---- MODULE Spec2Model ----
(***************************************************************************)
(* Model of src/sage/geometry/polyhedron/combinatorial_polyhedron/         *)
(* bitsets.cc: limb patterns, bitset_in / bitset_discard / bitset_add and  *)
(* bitset_next.                                                            *)
(*                                                                         *)
(* A uint64_t limb is modelled as the set of its 1-bit positions, a subset *)
(* of 0..63 (bit k has weight 2^k).  Every C operator used by the source   *)
(* on limbs is defined on that representation by what it does to the bits. *)
(* A size_t is a natural number; the only size_t value outside the small   *)
(* range that the code produces is (size_t) -1, written NotFound.          *)
(***************************************************************************)
EXTENDS Integers, FiniteSets, Sequences, TLC

\* ------------------------------------------------------------------ bounds
\* Largest number of limbs (face_length) of a modelled bitset.
MaxLimbs == 2

\* ------------------------------------------------------- program constants
index_shift == 6
LIMB_BITS == 64

\* (size_t) -1, the value returned for "no element"
NotFound == -1

\* ---------------------------------------------------- uint64_t arithmetic
BitPos == 0 .. (LIMB_BITS - 1)

\* the limb 0 and the limb with all 64 bits set
ZeroLimb == {}
FullLimb == BitPos

\* position of the least significant 1 bit of a non-zero limb
LowestBit(x) == CHOOSE k \in x : \A j \in x : k <= j

\* (uint64_t) 1 << k, for 0 <= k < 64
LimbShiftOne(k) == {k}

\* ~x on uint64_t
LimbNot(x) == BitPos \ x

\* !x : the logical negation yields the integer 1 when x is zero and the
\* integer 0 otherwise
LimbLogicalNot(x) == IF x = ZeroLimb THEN {0} ELSE ZeroLimb

\* x & y and x | y on uint64_t
LimbAnd(x, y) == x \cap y
LimbOr(x, y) == x \cup y

\* x - 1 on uint64_t (wraps to all ones for x = 0): the lowest 1 bit is
\* cleared and every bit below it is set
LimbMinusOne(x) ==
    IF x = ZeroLimb THEN FullLimb
    ELSE LET l == LowestBit(x) IN (x \ {l}) \cup {k \in BitPos : k < l}

\* conversion of a uint64_t to int: the low 32 bits are kept.  The int is
\* represented by its 32-bit pattern; it is zero iff the pattern is empty.
IntBits == 32
LimbToInt(x) == {k \in x : k < IntBits}

\* ------------------------------------------------------ size_t arithmetic
RECURSIVE Pow2(_)
Pow2(s) == IF s = 0 THEN 1 ELSE 2 * Pow2(s - 1)

\* n >> s and i << s on (small) size_t values
ShiftRight(n, s) == n \div Pow2(s)
ShiftLeft(i, s) == i * Pow2(s)

\* a | b on size_t values
RECURSIVE SizeOr(_, _)
SizeOr(a, b) ==
    IF a = 0 THEN b
    ELSE IF b = 0 THEN a
    ELSE (IF a % 2 = 1 \/ b % 2 = 1 THEN 1 ELSE 0)
         + 2 * SizeOr(a \div 2, b \div 2)

\* bits[i] for a 0-based limb index i.  The callers only pass i below the
\* number of limbs; a limb outside the buffer is read as zero.
LimbAt(bits, i) == IF (i + 1) \in DOMAIN bits THEN bits[i + 1] ELSE ZeroLimb

\* ------------------------------------------------------------ limb patterns
limb_one_set_bit(n) == LimbShiftOne(n % LIMB_BITS)

\* variant: the cleared pattern clears nothing
limb_one_zero_bit_keep(n) == FullLimb

limb_one_zero_bit(n) == LimbLogicalNot(LimbShiftOne(n % LIMB_BITS))

\* variant: bit n mod 64 itself belongs to the lower bits
limb_lower_bits_down_incl(n) ==
    LimbMinusOne(LimbShiftOne(n % LIMB_BITS)) \cup {n % LIMB_BITS}

limb_lower_bits_down(n) == LimbMinusOne(LimbShiftOne(n % LIMB_BITS))

\* ------------------------------------------------- bitset bit manipulation
\* the int returned by bitset_in, as a 32-bit pattern
bitset_in(bits, n) ==
    LimbToInt(LimbAnd(LimbAt(bits, ShiftRight(n, index_shift)),
                      limb_one_set_bit(n)))

\* variant: discard flips bit n instead of clearing it
bitset_discard_flip(bits, n) ==
    LET i == ShiftRight(n, index_shift)
        m == limb_one_set_bit(n)
    IN [bits EXCEPT ![i + 1] = (@ \ m) \cup (m \ @)]

\* the buffer after bitset_discard(bits, n)
bitset_discard(bits, n) ==
    LET i == ShiftRight(n, index_shift) IN
    [bits EXCEPT ![i + 1] = LimbAnd(@, limb_one_zero_bit(n))]

\* variant: add assigns the pattern to the limb instead of or-ing it in
bitset_add_assign(bits, n) ==
    LET i == ShiftRight(n, index_shift) IN
    [bits EXCEPT ![i + 1] = limb_one_set_bit(n)]

\* the buffer after bitset_add(bits, n)
bitset_add(bits, n) ==
    LET i == ShiftRight(n, index_shift) IN
    [bits EXCEPT ![i + 1] = LimbOr(@, limb_one_set_bit(n))]

\* ---------------------------------------------------------- bitset searching
\* mpn_scan1(&limb, 0) for a non-zero limb
mpn_scan1(limb) == LowestBit(limb)

\* variant: the most significant 1 bit is reported
_bitset_first_in_limb_high(limb) ==
    IF limb = ZeroLimb THEN NotFound
    ELSE CHOOSE k \in limb : \A j \in limb : j <= k

_bitset_first_in_limb(limb) ==
    IF limb = ZeroLimb THEN NotFound ELSE mpn_scan1(limb)

_bitset_first_in_limb_nonzero(limb) == mpn_scan1(limb)

\* the loop  for(i++; i < face_length; i++)  entered with index i; reads is
\* the set of limb indices read so far
RECURSIVE bitset_next_loop(_, _, _, _)
bitset_next_loop(bits, face_length, i, reads) ==
    IF i < face_length
    THEN IF LimbAt(bits, i) # ZeroLimb
         THEN [ret |-> SizeOr(ShiftLeft(i, index_shift),
                              _bitset_first_in_limb_nonzero(LimbAt(bits, i))),
               reads |-> reads \cup {i}]
         ELSE bitset_next_loop(bits, face_length, i + 1, reads \cup {i})
    ELSE [ret |-> NotFound, reads |-> reads]

\* variant: the range check lets n = face_length * 64 through
bitset_next_trace_gt(bits, face_length, n) ==
    IF n > face_length * LIMB_BITS
    THEN [ret |-> NotFound, reads |-> {}]
    ELSE LET i == ShiftRight(n, index_shift)
             limb == LimbAnd(LimbAt(bits, i), LimbNot(limb_lower_bits_down(n)))
             ret == _bitset_first_in_limb(limb)
         IN IF ret # NotFound
            THEN [ret |-> SizeOr(ShiftLeft(i, index_shift), ret), reads |-> {i}]
            ELSE bitset_next_loop(bits, face_length, i + 1, {i})

\* bitset_next with the limb indices it reads: ret is the returned value
bitset_next_trace(bits, face_length, n) ==
    IF n >= face_length * LIMB_BITS
    THEN [ret |-> NotFound, reads |-> {}]
    ELSE LET i == ShiftRight(n, index_shift)
             limb == LimbAnd(LimbAt(bits, i), LimbNot(limb_lower_bits_down(n)))
             ret == _bitset_first_in_limb(limb)
         IN IF ret # NotFound
            THEN [ret |-> SizeOr(ShiftLeft(i, index_shift), ret), reads |-> {i}]
            ELSE bitset_next_loop(bits, face_length, i + 1, {i})

bitset_next(bits, face_length, n) == bitset_next_trace(bits, face_length, n).ret

\* ------------------------------------------------------------------- state
VARIABLES
    face_length,  \* number of limbs of the caller's buffer
    bits,         \* the buffer: sequence of face_length limbs
    op,           \* the last call: name, argument n, returned value, limbs
                  \* read, and the buffer before the call
    pc,           \* caller's iteration loop: "idle", "iterating", "done"
    r,            \* iteration: value returned by the last bitset_next
    visited,      \* iteration: the indices returned so far, in order
    calls         \* iteration: number of bitset_next calls made

vars == <<face_length, bits, op, pc, r, visited, calls>>

\* bit offsets and the valid indices 64*l + o the calls are made with
Offsets == {0, 31, 32, 63}
Indices(L) == {LIMB_BITS * l + o : l \in 0 .. (L - 1), o \in Offsets}

\* start positions given to bitset_next: aligned and unaligned positions in
\* every limb, and positions at and past the capacity
StartOffsets == {0, 1, 31, 32, 33, 63}
Starts(L) == {LIMB_BITS * l + o : l \in 0 .. (L - 1), o \in StartOffsets}
             \cup {LIMB_BITS * L, LIMB_BITS * L + 1, LIMB_BITS * (L + 1)}

\* contents of a limb of the caller's buffer before the first call
InitLimbs == {ZeroLimb, FullLimb}

NoRet == "void"
NoOp == [name |-> "none", n |-> 0, ret |-> NoRet, reads |-> {}, pre |-> <<>>]

Init ==
    /\ face_length \in 0 .. MaxLimbs
    /\ bits \in [1 .. face_length -> InitLimbs]
    /\ op = NoOp
    /\ pc = "idle"
    /\ r = NotFound
    /\ visited = <<>>
    /\ calls = 0

CallIn(n) ==
    /\ pc = "idle"
    /\ op' = [name |-> "in", n |-> n, ret |-> bitset_in(bits, n),
              reads |-> {ShiftRight(n, index_shift)}, pre |-> bits]
    /\ UNCHANGED <<face_length, bits, pc, r, visited, calls>>

CallDiscard(n) ==
    /\ pc = "idle"
    /\ bits' = bitset_discard(bits, n)
    /\ op' = [name |-> "discard", n |-> n, ret |-> NoRet,
              reads |-> {ShiftRight(n, index_shift)}, pre |-> bits]
    /\ UNCHANGED <<face_length, pc, r, visited, calls>>

CallAdd(n) ==
    /\ pc = "idle"
    /\ bits' = bitset_add(bits, n)
    /\ op' = [name |-> "add", n |-> n, ret |-> NoRet,
              reads |-> {ShiftRight(n, index_shift)}, pre |-> bits]
    /\ UNCHANGED <<face_length, pc, r, visited, calls>>

CallNext(n) ==
    /\ pc = "idle"
    /\ LET t == bitset_next_trace(bits, face_length, n) IN
       op' = [name |-> "next", n |-> n, ret |-> t.ret,
              reads |-> t.reads, pre |-> bits]
    /\ UNCHANGED <<face_length, bits, pc, r, visited, calls>>

\* the caller's loop  r = bitset_next(bits, L, 0);
\*                    while (r != -1) { ...; r = bitset_next(bits, L, r+1); }
IterStart ==
    /\ pc = "idle"
    /\ LET ret == bitset_next(bits, face_length, 0) IN
       /\ r' = ret
       /\ visited' = IF ret = NotFound THEN <<>> ELSE <<ret>>
       /\ pc' = IF ret = NotFound THEN "done" ELSE "iterating"
    /\ calls' = 1
    /\ op' = NoOp
    /\ UNCHANGED <<face_length, bits>>

IterStep ==
    /\ pc = "iterating"
    /\ calls <= face_length * LIMB_BITS + 1
    /\ LET ret == bitset_next(bits, face_length, r + 1) IN
       /\ r' = ret
       /\ visited' = IF ret = NotFound THEN visited ELSE Append(visited, ret)
       /\ pc' = IF ret = NotFound THEN "done" ELSE "iterating"
    /\ calls' = calls + 1
    /\ UNCHANGED <<face_length, bits, op>>

IterEnd ==
    /\ pc = "done"
    /\ pc' = "idle"
    /\ r' = NotFound
    /\ visited' = <<>>
    /\ calls' = 0
    /\ UNCHANGED <<face_length, bits, op>>

Next ==
    \/ \E n \in Indices(face_length) : CallIn(n)
    \/ \E n \in Indices(face_length) : CallDiscard(n)
    \/ \E n \in Indices(face_length) : CallAdd(n)
    \/ \E n \in Starts(face_length) : CallNext(n)
    \/ IterStart
    \/ IterStep
    \/ IterEnd

Spec == Init /\ [][Next]_vars

\* ------------------------------------------------- the set a buffer denotes
\* bit n of the buffer: word n / 64, bit offset n mod 64
Member(b, n) == (n % LIMB_BITS) \in b[(n \div LIMB_BITS) + 1]

Capacity == face_length * LIMB_BITS

\* the indices of the 1 bits of a buffer of L limbs
SetIndices(b, L) == {m \in 0 .. (L * LIMB_BITS - 1) : Member(b, m)}

\* the smallest set index at or after n, NotFound when there is none
MinFrom(b, L, n) ==
    LET S == {m \in SetIndices(b, L) : m >= n} IN
    IF S = {} THEN NotFound ELSE CHOOSE m \in S : \A k \in S : m <= k

\* every bit other than bit n has the same value in b and c
SameExcept(b, c, n) ==
    \A m \in 0 .. (Capacity - 1) : m # n => (Member(b, m) <=> Member(c, m))

\* ------------------------------------------------------------------ claims

\* C1: bitset_next(bits, L, n) returns the smallest set index i with
\* n <= i < L*64, and NotFound exactly when there is no such index.
C1_NextIsMinimum ==
    op.name = "next" => op.ret = MinFrom(bits, face_length, op.n)

\* a start that is not word-aligned, answered by a bit of a later word
C1_Witness ==
    /\ op.name = "next"
    /\ op.n % LIMB_BITS # 0
    /\ op.ret # NotFound
    /\ op.ret \div LIMB_BITS > op.n \div LIMB_BITS

\* C2: after bitset_add(bits, n), bitset_in(bits, n) returns a non-zero
\* value, for every valid n, bit offsets 32..63 included.
C2_AddThenIn ==
    op.name = "add" => bitset_in(bits, op.n) # {}

\* C3: bitset_discard(bits, n) changes no bit other than bit n.
C3_DiscardFrame ==
    op.name = "discard" => SameExcept(op.pre, bits, op.n)

\* C4: limb_one_zero_bit(n) is the complement of limb_one_set_bit(n): only
\* bit n mod 64 is clear.
C4_OneZeroBitIsComplement ==
    op.name = "discard" =>
        /\ limb_one_zero_bit(op.n) = LimbNot(limb_one_set_bit(op.n))
        /\ limb_one_zero_bit(op.n) = BitPos \ {op.n % LIMB_BITS}

\* C5: the loop r = bitset_next(bits, L, 0); r = bitset_next(bits, L, r+1)
\* returns the set indices in strictly increasing order, each exactly once
\* and nothing else, and ends with NotFound after (number of set bits + 1)
\* calls.
C5_Iteration ==
    pc # "idle" =>
        LET S == SetIndices(bits, face_length) IN
        /\ \A j \in 1 .. Len(visited) : visited[j] \in S
        /\ \A j \in 1 .. (Len(visited) - 1) : visited[j] < visited[j + 1]
        /\ calls <= Cardinality(S) + 1
        /\ pc = "iterating" => /\ calls = Len(visited)
                               /\ r = visited[Len(visited)]
        /\ pc = "done" => /\ r = NotFound
                          /\ {visited[j] : j \in 1 .. Len(visited)} = S
                          /\ Len(visited) = Cardinality(S)
                          /\ calls = Cardinality(S) + 1
        /\ calls = Cardinality(S) + 1 => pc = "done"

\* a finished iteration over several limbs whose last set bit is L*64 - 1
C5_Witness ==
    /\ pc = "done"
    /\ face_length >= 2
    /\ Len(visited) >= 3
    /\ visited[Len(visited)] = Capacity - 1
    /\ visited[1] < LIMB_BITS
    /\ bits[1] # FullLimb

\* C6: bitset_in(bits, n) returns non-zero iff bit n is 1, and leaves the
\* buffer as it was.
C6_InIffMember ==
    op.name = "in" =>
        /\ (op.ret # {}) <=> Member(bits, op.n)
        /\ bits = op.pre

\* C7: after bitset_discard(bits, n), bitset_in(bits, n) returns zero,
\* whether or not n was present.
C7_DiscardThenIn ==
    op.name = "discard" => bitset_in(bits, op.n) = {}

\* a discard of an element that bitset_in reported before the call
C7_Witness ==
    /\ op.name = "discard"
    /\ bitset_in(op.pre, op.n) # {}
    /\ bitset_in(bits, op.n) = {}

\* C8: bitset_add(bits, n) sets bit n, keeps every other bit of word n / 64
\* and every other word.
C8_AddFrame ==
    op.name = "add" =>
        /\ Member(bits, op.n)
        /\ SameExcept(op.pre, bits, op.n)
        /\ \A i \in 1 .. face_length :
              i # (op.n \div LIMB_BITS) + 1 => bits[i] = op.pre[i]

\* an add of an absent element to a word that holds another element, next
\* to a non-zero word
C8_Witness ==
    /\ op.name = "add"
    /\ ~ Member(op.pre, op.n)
    /\ face_length >= 2
    /\ \A i \in 1 .. face_length : op.pre[i] # ZeroLimb

\* C9: a second bitset_add(bits, n) leaves the result of the first as it
\* is, and so does a second bitset_discard(bits, n).
C9_Idempotence ==
    /\ op.name = "add" => bitset_add(bits, op.n) = bits
    /\ op.name = "discard" => bitset_discard(bits, op.n) = bits

\* a discard that changed the buffer, made after an add that changed it
C9_Witness ==
    /\ op.name = "discard"
    /\ op.pre # bits
    /\ \E i \in 1 .. face_length : bits[i] \notin {ZeroLimb, FullLimb}

\* C10: bitset_next(bits, L, n) with n >= L*64 returns NotFound without
\* reading a limb.
C10_PastCapacity ==
    (op.name = "next" /\ op.n >= Capacity) =>
        /\ op.ret = NotFound
        /\ op.reads = {}

\* a request exactly at the capacity of a buffer whose last limb is set
C10_Witness ==
    /\ op.name = "next"
    /\ face_length >= 1
    /\ op.n = Capacity
    /\ bits[face_length] = FullLimb
    /\ op.ret = NotFound

====
